---- MODULE Spec2Model ----
(***************************************************************************)
(* A model of partition.py: get_info(fp, name) run on one opened image.    *)
(* The image is the input, drawn in Init; the three table constructors     *)
(* (MBRTable, GPTTable, DisklabelTable) and the pprint calls between them  *)
(* are the steps.  An exception no handler of the program catches ends     *)
(* the run (pc = "crashed", exc names it).  SpecHost is the same run in a   *)
(* host that decodes a second device in an interleaved pass.               *)
(***************************************************************************)
EXTENDS Integers, Sequences, FiniteSets, TLC

VARIABLES
    img,        \* the device: its length, block size and decoded layout
    fp,         \* what the module's global name fp is bound to
    other,      \* another opened device of the host: its image and cursor
    py3,        \* sys.version_info >= (3, 0)
    pc,         \* the statement of get_info the run is at
    pos,        \* the cursor of the file object fp
    exc,        \* the exception that left get_info, or NoExc
    stdout,     \* the lines print() wrote that tell the outcomes apart
    mbrheader,  \* MBRTable.mbrheader
    parts,      \* the list read_mbr_partitions / read_ebr_partition builds
    ebr,        \* the pending read_ebr_partition call: its arguments and depth
    visited,    \* the LBAs read_ebr_partition has read, in order
    mbrRes,     \* how MBRTable.__init__ ended, and MBRTable.info
    gptheader,  \* GPTTable.gptheader
    gptI,       \* the loop variable i of read_gpt_partitions
    gptParts,   \* the list read_gpt_partitions builds
    gptRes,     \* how GPTTable.__init__ ended, and GPTTable.info
    dlheader,   \* DisklabelTable.header
    dlNum,      \* the loop variable num of read_disklabel_partitions
    dlParts,    \* the list read_disklabel_partitions builds
    dlRes       \* how DisklabelTable.__init__ ended, and DisklabelTable.info

vars == <<img, fp, other, py3, pc, pos, exc, stdout, mbrheader, parts, ebr, visited, mbrRes,
          gptheader, gptI, gptParts, gptRes, dlheader, dlNum, dlParts, dlRes>>

----------------------------------------------------------------------------
(* Bounds of the model. *)

\* The EBR sectors of the modelled images are the LBAs 2..MaxLBA.
MaxLBA == 4
\* The largest num_part_entries of a modelled GPT header.
MaxGptEntries == 2
\* The largest slices_total of a modelled disklabel header.
MaxSlices == 2
\* The code units of the modelled GPT name field (72 bytes on disk).
NameUnits == 3

----------------------------------------------------------------------------
(* Program constants. *)

MBR_SIZE == 512              \* struct.calcsize of MBR_FORMAT and EBR_FORMAT
MBR_LBA_SIZE == 512          \* "lba size is fixed to 512 for MBR"
GPT_HEADER_SIZE == 92        \* struct.calcsize of GPT_HEADER_FORMAT
GPT_PARTITION_SIZE == 128    \* struct.calcsize of GPT_PARTITION_FORMAT
DISKLABEL_HEADER_SIZE == 148 \* struct.calcsize of DISKLABEL_HEADER_FORMAT
DISKLABEL_SIZE_FIELD == 148  \* the extra "size" field, 0x94
DISKLABEL_SLICE_SIZE == 16   \* 0x10
DEFAULT_BLOCKSIZE == 512     \* blocksize when the ioctl fails
MIN_HEADER_SIZE == 92        \* header.header_size < 92 is rejected
ACTIVE_STATUS == 128         \* part.status >= 0x80
INDEXER_LEN == 26            \* the letters of DisklabelTable.pprint's indexer

MBR_SIGNATURE == <<85, 170>>           \* b"\x55\xaa"
GPT_SIGNATURE == "EFI PART"
DISKLABEL_SIGNATURE == "WEV\\x82"
MBR_EXTENDED_TYPE == {5, 15, 21, 31, 133}

Min(a, b) == IF a < b THEN a ELSE b

----------------------------------------------------------------------------
(* The image: what the bytes of the device decode to, by layout. *)

\* A 16-byte MBR partition slot (MBR_PARTITION_FORMAT); the CHS bytes are zero.
Slot(status, type, lba, sectors) ==
    [status |-> status, type |-> type, lba |-> lba, sectors |-> sectors]
ZeroSlot == Slot(0, 0, 0, 0)
\* partstr == 16 * b"\x00"
IsZeroSlot(s) == s.status = 0 /\ s.type = 0 /\ s.lba = 0 /\ s.sectors = 0

EbrLbas == 2..MaxLBA
\* A 512-byte sector read as EBR_FORMAT.
Node(partition, next_ebr, signature) ==
    [partition |-> partition, next_ebr |-> next_ebr, signature |-> signature]
\* A sector of zero bytes.
ZeroSector == Node(ZeroSlot, ZeroSlot, <<0, 0>>)

LinuxActive == Slot(128, 131, 1, 8)
NtfsInactive == Slot(0, 7, 1, 8)
Protective == Slot(0, 238, 1, 8)
ExtendedAt2 == Slot(0, 5, 2, 8)
ExtendedAt3 == Slot(0, 15, 3, 8)
PrimarySlots == {ZeroSlot, LinuxActive, NtfsInactive, ExtendedAt2, ExtendedAt3}

Logical == Slot(0, 131, 1, 1)
\* Next-EBR descriptors: none, a link to a relative LBA, and descriptors that are
\* not all-zero but carry type 0.
NextSlots ==
    {ZeroSlot, Slot(0, 0, 1, 1)} \cup {Slot(0, 5, l, 2) : l \in 0..(MaxLBA - 2)}
EbrNodes ==
    {Node(Logical, ZeroSlot, <<0, 0>>)}
    \cup {Node(p, n, MBR_SIGNATURE) : p \in {ZeroSlot, Logical}, n \in NextSlots}

\* The name field of a GPT entry: NameUnits UTF-16 code units as stored (each
\* the little-endian value of its two bytes).
NameAlphabet == {0, 48, 65, 55296, 65279, 65534}
Names == [1..NameUnits -> NameAlphabet]
PlainName == [i \in 1..NameUnits |-> IF i = 1 THEN 65 ELSE 0]
\* A GPT entry: the type GUID (0: sixteen zero bytes) and the name field.
GptEntry(guid, name) == [guid |-> guid, name |-> name]

NoMbr == [signature |-> <<0, 0>>, partition |-> [i \in 1..4 |-> ZeroSlot]]
ProtectiveMbr ==
    [signature |-> MBR_SIGNATURE,
     partition |-> [i \in 1..4 |-> IF i = 1 THEN Protective ELSE ZeroSlot]]
PlainChain ==
    [l \in EbrLbas |->
        IF l = 2 THEN Node(Logical, Slot(0, 5, 1, 2), MBR_SIGNATURE)
        ELSE Node(Logical, ZeroSlot, MBR_SIGNATURE)]
GptHeader(sig, minor, major, hsize, start, n, esize) ==
    [signature |-> sig, revision_minor |-> minor, revision_major |-> major,
     header_size |-> hsize, part_entry_start_lba |-> start,
     num_part_entries |-> n, part_entry_size |-> esize]
NoGpt == GptHeader("\\0\\0\\0\\0\\0\\0\\0\\0", 0, 0, 0, 0, 0, 0)
DlHeader(s1, s2, n) == [signature1 |-> s1, signature2 |-> s2, slices_total |-> n]
NoDl == DlHeader("\\0\\0\\0\\0", "\\0\\0\\0\\0", 0)

Image(len, bs, mbr, ebrs, gpt, gptents, dl, dlslices) ==
    [len |-> len, bs |-> bs, mbr |-> mbr, ebr |-> ebrs, gpt |-> gpt,
     gptents |-> gptents, dl |-> dl, dlslices |-> dlslices]

FullLen == (MaxLBA + 1) * MBR_LBA_SIZE

\* Images that vary the four primary slots.
PrimaryImages ==
    {Image(len, 512, [signature |-> sig, partition |-> sl], PlainChain,
           NoGpt, <<>>, NoDl, <<>>) :
        len \in {100, FullLen}, sig \in {MBR_SIGNATURE, <<170, 85>>},
        sl \in [1..4 -> PrimarySlots]}

\* Images that vary the EBR chain of an extended partition at LBA 2.
ChainImages ==
    {Image(len, 512,
           [signature |-> MBR_SIGNATURE,
            partition |-> [i \in 1..4 |-> IF i = 1 THEN s1
                                          ELSE IF i = 2 THEN ExtendedAt2
                                          ELSE ZeroSlot]],
           ch, NoGpt, <<>>, NoDl, <<>>) :
        len \in {3 * MBR_LBA_SIZE + 100, FullLen}, s1 \in {LinuxActive},
        ch \in [EbrLbas -> EbrNodes]}

----------------------------------------------------------------------------
(* The file object. *)

\* len(f.read(n)) with the cursor of f at p on device dev: a read at or past
\* the end is short.
ReadLenOf(dev, p, n) == IF p >= dev.len THEN 0 ELSE Min(n, dev.len - p)

\* len(fp.read(n)) with the cursor at p: a read at or past the end is short.
ReadLen(p, n) == ReadLenOf(img, p, n)

\* The sector at LBA l of device dev read as EBR_FORMAT.  Sector 0 holds the
\* MBR: its slots 1 and 2 lie at the offsets of the EBR's two descriptors
\* (446 and 462).  Sectors the image does not describe are zero bytes.
SectorAsEbr(dev, l) ==
    IF l = 0 THEN Node(dev.mbr.partition[1], dev.mbr.partition[2], dev.mbr.signature)
    ELSE IF l \in DOMAIN dev.ebr THEN dev.ebr[l]
    ELSE ZeroSector

\* The sector at LBA l read as an EBR; sectors the image does not describe are
\* zero bytes.
EbrAt(l) == IF l \in DOMAIN img.ebr THEN img.ebr[l] ELSE ZeroSector

\* Another opened device and the cursor of its handle.
Other(dev, p) == [dev |-> dev, pos |-> p]

----------------------------------------------------------------------------
(* Exceptions and the handlers of the three constructors. *)

\* type is class base or a subclass of it.
IsInstance(type, base) ==
    \/ type = base
    \/ type = "MBRMissing" /\ base = "MBRError"
    \/ type = "GPTMissing" /\ base = "GPTError"
    \/ type = "DisklabelMissing" /\ base = "DisklabelError"

\* Which except clause of MBRTable.__init__ takes an exception of this type.
MbrCatch(type) ==
    IF IsInstance(type, "MBRMissing") THEN "Absent"
    ELSE IF IsInstance(type, "MBRError") THEN "Corrupt"
    ELSE "uncaught"

Result(outcome, partitions, reason) ==
    [outcome |-> outcome, partitions |-> partitions, reason |-> reason]
Pending == Result("pending", <<>>, "")

Exc(type, at) == [type |-> type, at |-> at]
NoExc == Exc("none", "none")

----------------------------------------------------------------------------
(* MBRTable *)

MBR_PARTITION_TYPE ==
    [t \in {5, 7, 15, 131, 238} |->
        CASE t = 5 -> "Extended, CHS"
          [] t = 7 -> "NTFS"
          [] t = 15 -> "Extended, LBA"
          [] t = 131 -> "Linux"
          [] t = 238 -> "EFI GPT protec MBR"]

\* The MBRPartition tuple; none marks Python's None in its place.
NonePart ==
    [none |-> TRUE, status |-> 0, type |-> 0, lba |-> 0, sectors |-> 0,
     index |-> 0, active |-> FALSE, type_str |-> ""]

IsActive(status) == status >= ACTIVE_STATUS

\* read_mbr_partition(partstr, num): the entry, or None for type 0.
ReadMbrPartition(slot, num) ==
    IF slot.type # 0
    THEN [none |-> FALSE, status |-> slot.status, type |-> slot.type,
          lba |-> slot.lba, sectors |-> slot.sectors, index |-> num,
          active |-> IsActive(slot.status),
          type_str |-> IF slot.type \in DOMAIN MBR_PARTITION_TYPE
                       THEN MBR_PARTITION_TYPE[slot.type] ELSE "Unknown"]
    ELSE NonePart

\* The slots the loop of read_mbr_partitions decodes: range(1, 4).
MbrSlotRange == 1..3

\* parts after the first loop of read_mbr_partitions.
PrimaryParts(header) ==
    SelectSeq([i \in MbrSlotRange |-> ReadMbrPartition(header.partition[i], i)],
              LAMBDA p : ~p.none)

\* The index in ps of the first entry with an extended type, 0 if none.
FirstExtended(ps) ==
    IF \E i \in 1..Len(ps) : ps[i].type \in MBR_EXTENDED_TYPE
    THEN CHOOSE i \in 1..Len(ps) :
            /\ ps[i].type \in MBR_EXTENDED_TYPE
            /\ \A j \in 1..(i - 1) : ps[j].type \notin MBR_EXTENDED_TYPE
    ELSE 0

\* EbrSignatureError raising the class of a missing MBR.
EbrSignatureErrorMissing == "MBRMissing"

\* The exception read_ebr_partition raises for a bad boot signature.
EbrSignatureError == "MBRError"

\* The depth of read_ebr_partition calls at which the interpreter raises its
\* recursion error; every acyclic chain of the modelled images is shorter.
RecursionLimit == MaxLBA + 1

NoHeader == [has |-> FALSE]

NoCall == [extended_lba |-> 0, lba |-> 0, num |-> 0, depth |-> 0]

\* An exception of this type leaves read_mbr_header / read_mbr_partitions.
MbrRaise(type, reason, at) ==
    /\ parts' = <<>>
    /\ ebr' = NoCall
    /\ IF MbrCatch(type) = "uncaught"
       THEN /\ pc' = "crashed"
            /\ exc' = Exc(type, at)
            /\ UNCHANGED <<mbrRes, stdout>>
       ELSE /\ pc' = "mbr_pprint"
            /\ mbrRes' = Result(MbrCatch(type), <<>>, reason)
            /\ stdout' = IF MbrCatch(type) = "Corrupt"
                         THEN Append(stdout, "Error reading MBR!") ELSE stdout
            /\ UNCHANGED exc

\* read_mbr_partitions returned ps: self.info is set.
MbrReturn(ps) ==
    /\ mbrRes' = Result("Present", ps, "")
    /\ parts' = ps
    /\ ebr' = NoCall
    /\ pc' = "mbr_pprint"
    /\ UNCHANGED <<exc, stdout>>

UnchangedGpt == UNCHANGED <<gptheader, gptI, gptParts, gptRes>>
UnchangedDl == UNCHANGED <<dlheader, dlNum, dlParts, dlRes>>
UnchangedMbr == UNCHANGED <<mbrheader, parts, ebr, visited, mbrRes>>

\* MBRTable.__init__ up to read_mbr_header: seek(0), read 512 bytes, check the
\* signature.
ReadMbrHeader ==
    /\ pc = "mbr_header"
    /\ pos' = ReadLen(0, MBR_SIZE)
    /\ UNCHANGED <<img, py3, fp, other, visited>>
    /\ UnchangedGpt /\ UnchangedDl
    /\ IF ReadLen(0, MBR_SIZE) # MBR_SIZE
       THEN MbrRaise("struct.error", "", "read_mbr_header") /\ UNCHANGED mbrheader
       ELSE IF img.mbr.signature # MBR_SIGNATURE
       THEN MbrRaise("MBRMissing", "Bad MBR signature", "read_mbr_header")
            /\ UNCHANGED mbrheader
       ELSE /\ mbrheader' = [has |-> TRUE, partition |-> img.mbr.partition]
            /\ pc' = "mbr_partitions"
            /\ UNCHANGED <<exc, stdout, parts, ebr, mbrRes>>

\* read_mbr_partitions up to its call of read_ebr_partition, or to its return.
ReadMbrPartitions ==
    /\ pc = "mbr_partitions"
    /\ UNCHANGED <<img, py3, fp, other, pos, mbrheader, visited>>
    /\ UnchangedGpt /\ UnchangedDl
    /\ LET ps == PrimaryParts(mbrheader)
           x == FirstExtended(ps)
       IN IF x # 0
          THEN /\ parts' = ps
               /\ ebr' = [extended_lba |-> ps[x].lba, lba |-> 0, num |-> 5,
                          depth |-> 1]
               /\ pc' = "ebr"
               /\ UNCHANGED <<exc, stdout, mbrRes>>
          ELSE MbrReturn(ps)

\* One call of read_ebr_partition(extended_lba, lba, num), up to its recursive
\* call or its return.  The seek is on self.fp; the read is on the module's
\* global fp, whatever it is bound to when the line runs.
ReadEbrPartition ==
    /\ pc = "ebr"
    /\ UNCHANGED <<img, py3, fp, mbrheader>>
    /\ UnchangedGpt /\ UnchangedDl
    /\ LET l == ebr.extended_lba + ebr.lba
           at == l * MBR_LBA_SIZE
           own == fp = "own"
           dev == IF own THEN img ELSE other.dev
           from == IF own THEN at ELSE other.pos
           got == ReadLenOf(dev, from, MBR_SIZE)
           node == IF own THEN EbrAt(l) ELSE SectorAsEbr(dev, from \div MBR_LBA_SIZE)
           here == Append(parts, ReadMbrPartition(node.partition, ebr.num))
           next == ReadMbrPartition(node.next_ebr, 0)
       IN /\ visited' = Append(visited, l)
          /\ IF fp = "unbound"
             THEN /\ pos' = at
                  /\ UNCHANGED other
                  /\ MbrRaise("NameError", "", "read_ebr_partition")
             ELSE /\ pos' = IF own THEN at + got ELSE at
                  /\ other' = IF own THEN other ELSE Other(dev, from + got)
                  /\ IF got # MBR_SIZE
                     THEN MbrRaise("struct.error", "", "read_ebr_partition")
                     ELSE IF node.signature # MBR_SIGNATURE
                     THEN MbrRaise(EbrSignatureError, "Bad EBR signature",
                                   "read_ebr_partition")
                     ELSE IF IsZeroSlot(node.next_ebr)
                     THEN MbrReturn(here)
                     ELSE IF next.none
                     THEN MbrRaise("AttributeError", "", "read_ebr_partition")
                     ELSE IF ebr.depth + 1 > RecursionLimit
                     THEN MbrRaise("RecursionError", "", "read_ebr_partition")
                     ELSE /\ parts' = here
                          /\ ebr' = [ebr EXCEPT !.lba = next.lba,
                                                !.num = ebr.num + 1,
                                                !.depth = ebr.depth + 1]
                          /\ pc' = "ebr"
                          /\ UNCHANGED <<exc, stdout, mbrRes>>

\* m.pprint(): reads part.index of every element of info.partitions.
MbrPprint ==
    /\ pc = "mbr_pprint"
    /\ UNCHANGED <<img, py3, fp, other, pos>>
    /\ UnchangedMbr /\ UnchangedGpt /\ UnchangedDl
    /\ IF mbrRes.outcome # "Present"
       THEN /\ stdout' = Append(stdout, "No MBR")
            /\ pc' = "gpt_header"
            /\ UNCHANGED exc
       ELSE IF \E i \in 1..Len(mbrRes.partitions) : mbrRes.partitions[i].none
       THEN /\ stdout' = Append(stdout, "MBR Header")
            /\ pc' = "crashed"
            /\ exc' = Exc("AttributeError", "MBRTable.pprint")
       ELSE /\ stdout' = Append(stdout, "MBR Header")
            /\ pc' = "gpt_header"
            /\ UNCHANGED exc

----------------------------------------------------------------------------
(* GPTTable *)

\* Which except clause of GPTTable.__init__ takes an exception of this type.
GptCatch(type) ==
    IF IsInstance(type, "GPTMissing") THEN "Absent"
    ELSE IF IsInstance(type, "GPTError") THEN "Corrupt"
    ELSE "uncaught"

\* An exception of this type leaves read_gpt_header / read_gpt_partitions.
GptRaise(type, reason, at) ==
    /\ gptParts' = <<>>
    /\ IF GptCatch(type) = "uncaught"
       THEN /\ pc' = "crashed"
            /\ exc' = Exc(type, at)
            /\ UNCHANGED <<gptRes, stdout>>
       ELSE /\ pc' = "gpt_pprint"
            /\ gptRes' = Result(GptCatch(type), <<>>, reason)
            /\ stdout' = IF GptCatch(type) = "Corrupt"
                         THEN Append(stdout, "Error reading GPT!") ELSE stdout
            /\ UNCHANGED exc

\* revision = header.revision_major + (header.revision_minor / 10), as tenths:
\* the division is true division (from __future__ import division).
RevisionTenths(h) == 10 * h.revision_major + h.revision_minor
\* BadRevision with <= in place of <: revision 1.0 is rejected too.
BadRevisionInclusive(h) == RevisionTenths(h) <= 10
\* revision < 1.0
BadRevision(h) == RevisionTenths(h) < 10
\* header.header_size < 92
BadHeaderSize(h) == h.header_size < MIN_HEADER_SIZE

\* The exception read_gpt_header raises for the decoded header h, "" if none.
GptHeaderError(h) ==
    IF h.signature # GPT_SIGNATURE THEN "GPTMissing"
    ELSE IF BadRevision(h) THEN "GPTError"
    ELSE IF BadHeaderSize(h) THEN "GPTError"
    ELSE ""

\* GPTTable.__init__ up to the return of read_gpt_header: seek(0), the block
\* size, seek(blocksize), read 92 bytes, validate.
ReadGptHeader ==
    /\ pc = "gpt_header"
    /\ pos' = img.bs + ReadLen(img.bs, GPT_HEADER_SIZE)
    /\ gptI' = 0
    /\ UNCHANGED <<img, py3, fp, other>>
    /\ UnchangedMbr /\ UnchangedDl
    /\ IF ReadLen(img.bs, GPT_HEADER_SIZE) # GPT_HEADER_SIZE
       THEN GptRaise("struct.error", "", "read_gpt_header") /\ UNCHANGED gptheader
       ELSE IF GptHeaderError(img.gpt) # ""
       THEN GptRaise(GptHeaderError(img.gpt),
                     IF img.gpt.signature # GPT_SIGNATURE THEN "Bad GPT signature"
                     ELSE IF BadRevision(img.gpt) THEN "Bad GPT revision"
                     ELSE "Bad GPT header size",
                     "read_gpt_header")
            /\ UNCHANGED gptheader
       ELSE /\ gptheader' = [has |-> TRUE, h |-> img.gpt]
            /\ pc' = "gpt_partitions"
            /\ UNCHANGED <<exc, stdout, gptParts, gptRes>>

\* The byte offset of the partition entry array.
GptArrayStart == gptheader.h.part_entry_start_lba * img.bs

GarbageEntry == GptEntry(255, PlainName)
\* The entry whose bytes start at offset at: the array slots lie
\* part_entry_size bytes apart from GptArrayStart.
EntryAt(at) ==
    LET size == gptheader.h.part_entry_size
        off == at - GptArrayStart
    IN IF size > 0 /\ off >= 0 /\ off % size = 0
          /\ (off \div size) + 1 \in 1..Len(img.gptents)
       THEN img.gptents[(off \div size) + 1]
       ELSE GarbageEntry

\* The two bytes of a code unit in the other order.
Swap(u) == (u % 256) * 256 + (u \div 256)

IsHigh(u) == u >= 55296 /\ u <= 56319
IsLow(u) == u >= 56320 /\ u <= 57343

RECURSIVE DecodeUnits(_)
\* The code points of a sequence of UTF-16 code units, <<-1>> for ill-formed
\* input (a surrogate without its pair).
DecodeUnits(us) ==
    IF us = <<>> THEN <<>>
    ELSE IF IsHigh(us[1])
    THEN IF Len(us) >= 2 /\ IsLow(us[2])
         THEN LET rest == DecodeUnits(SubSeq(us, 3, Len(us)))
              IN IF rest = <<-1>> THEN rest
                 ELSE <<65536 + (us[1] - 55296) * 1024 + (us[2] - 56320)>> \o rest
         ELSE <<-1>>
    ELSE IF IsLow(us[1]) THEN <<-1>>
    ELSE LET rest == DecodeUnits(Tail(us))
         IN IF rest = <<-1>> THEN rest ELSE <<us[1]>> \o rest

\* bytes.decode("utf-16") on a little-endian host: a leading byte order mark
\* is consumed and sets the byte order, which is little-endian without one.
DecodeUtf16(us) ==
    IF us # <<>> /\ us[1] = 65279 THEN DecodeUnits(Tail(us))
    ELSE IF us # <<>> /\ us[1] = 65534
    THEN DecodeUnits([i \in 1..(Len(us) - 1) |-> Swap(us[i + 1])])
    ELSE DecodeUnits(us)

\* The code point of split_literal: "0" on Python 3, b"\0" on Python 2.
SplitLiteral == IF py3 THEN 48 ELSE 0

\* text.split(sep, 1)[0]
SplitFirst(text, sep) ==
    IF \E i \in 1..Len(text) : text[i] = sep
    THEN SubSeq(text, 1,
                (CHOOSE i \in 1..Len(text) :
                    text[i] = sep /\ \A j \in 1..(i - 1) : text[j] # sep) - 1)
    ELSE text

\* str(uuid.UUID(bytes_le=guid)).upper() for the GUIDs of the modelled images.
GuidText(g) ==
    CASE g = 0 -> "00000000-0000-0000-0000-000000000000"
      [] g = 1 -> "C12A7328-F81F-11D2-BA4B-00A0C93EC93B"
      [] g = 2 -> "0FC63DAF-8483-4772-8E79-3D69D8477DE4"
      [] OTHER -> "FFFFFFFF-FFFF-FFFF-FFFF-FFFFFFFFFFFF"
GPT_GUID ==
    [t \in {"C12A7328-F81F-11D2-BA4B-00A0C93EC93B",
            "0FC63DAF-8483-4772-8E79-3D69D8477DE4"} |->
        IF t = "C12A7328-F81F-11D2-BA4B-00A0C93EC93B"
        THEN "EFI System partition" ELSE "Linux filesystem data"]

\* part.guid == 16 * b"\x00"
IsZeroGuid(g) == g = 0

\* The index field of the entry decoded in iteration i of the loop.
GptIndex(i) == i + 1

\* GptAfterUnused with break in place of continue: the scan ends.
GptAfterUnusedBreak(i, n) == n

\* The value of i the loop goes on with after an unused slot (continue).
GptAfterUnused(i, n) == i + 1

\* The GPTPartition tuple appended for entry e decoded in iteration i.
GptPart(e, i) ==
    [index |-> GptIndex(i), guid |-> GuidText(e.guid),
     name |-> SplitFirst(DecodeUtf16(e.name), SplitLiteral),
     type |-> IF GuidText(e.guid) \in DOMAIN GPT_GUID
              THEN GPT_GUID[GuidText(e.guid)] ELSE "Unknown"]

\* The cursor after an entry read of got bytes at offset at.
GptAdvance(at, got) == at + got

\* read_gpt_partitions: the seek and one iteration of its loop, or its return
\* (self.info is set) once i has run through range(num_part_entries).
ReadGptPartitions ==
    /\ pc = "gpt_partitions"
    /\ UNCHANGED <<img, py3, fp, other, gptheader>>
    /\ UnchangedMbr /\ UnchangedDl
    /\ LET h == gptheader.h
           at == IF gptI = 0 THEN GptArrayStart ELSE pos
           got == ReadLen(at, h.part_entry_size)
           e == EntryAt(at)
       IN IF gptI >= h.num_part_entries
          THEN /\ gptRes' = Result("Present", gptParts, "")
               /\ pos' = at
               /\ pc' = "gpt_pprint"
               /\ UNCHANGED <<exc, stdout, gptI, gptParts>>
          ELSE /\ pos' = GptAdvance(at, got)
               /\ IF got < GPT_PARTITION_SIZE
                  THEN GptRaise("GPTError", "Short GPT partition entry",
                                "read_gpt_partitions") /\ UNCHANGED gptI
                  ELSE IF got # GPT_PARTITION_SIZE
                  THEN GptRaise("struct.error", "", "read_gpt_partitions")
                       /\ UNCHANGED gptI
                  ELSE IF IsZeroGuid(e.guid)
                  THEN /\ gptI' = GptAfterUnused(gptI, h.num_part_entries)
                       /\ UNCHANGED <<exc, stdout, pc, gptParts, gptRes>>
                  ELSE IF DecodeUtf16(e.name) = <<-1>>
                  THEN GptRaise("UnicodeDecodeError", "", "read_gpt_partitions")
                       /\ UNCHANGED gptI
                  ELSE /\ gptParts' = Append(gptParts, GptPart(e, gptI))
                       /\ gptI' = gptI + 1
                       /\ UNCHANGED <<exc, stdout, pc, gptRes>>

\* g.pprint()
GptPprint ==
    /\ pc = "gpt_pprint"
    /\ stdout' = Append(stdout, IF gptRes.outcome = "Present" THEN "GPT Header"
                                ELSE "No GPT")
    /\ pc' = "dl_header"
    /\ UNCHANGED <<img, py3, fp, other, pos, exc>>
    /\ UnchangedMbr /\ UnchangedGpt /\ UnchangedDl

----------------------------------------------------------------------------
(* DisklabelTable *)

\* Which except clause of DisklabelTable.__init__ takes an exception of this
\* type.
DlCatch(type) ==
    IF IsInstance(type, "DisklabelMissing") THEN "Absent"
    ELSE IF IsInstance(type, "DisklabelError") THEN "Corrupt"
    ELSE "uncaught"

\* An exception of this type leaves read_disklabel_header /
\* read_disklabel_partitions; neither handler prints.
DlRaise(type, reason, at) ==
    /\ dlParts' = <<>>
    /\ UNCHANGED stdout
    /\ IF DlCatch(type) = "uncaught"
       THEN /\ pc' = "crashed"
            /\ exc' = Exc(type, at)
            /\ UNCHANGED dlRes
       ELSE /\ pc' = "dl_pprint"
            /\ dlRes' = Result(DlCatch(type), <<>>, reason)
            /\ UNCHANGED exc

\* BadDisklabelSignature with and in place of or.
BadDisklabelSignatureBoth(h) ==
    h.signature1 # DISKLABEL_SIGNATURE /\ h.signature2 # DISKLABEL_SIGNATURE

\* header.signature1 != b"WEV\x82" or header.signature2 != b"WEV\x82"
BadDisklabelSignature(h) ==
    h.signature1 # DISKLABEL_SIGNATURE \/ h.signature2 # DISKLABEL_SIGNATURE

\* The exception read_disklabel_header raises for a bad signature.
DisklabelSignatureError == "DisklabelMissing"

\* DisklabelTable.__init__ up to the return of read_disklabel_header: seek(0),
\* the block size, seek(blocksize), read 148 bytes, check both signatures.
ReadDisklabelHeader ==
    /\ pc = "dl_header"
    /\ pos' = img.bs + ReadLen(img.bs, DISKLABEL_HEADER_SIZE)
    /\ dlNum' = 0
    /\ UNCHANGED <<img, py3, fp, other>>
    /\ UnchangedMbr /\ UnchangedGpt
    /\ IF ReadLen(img.bs, DISKLABEL_HEADER_SIZE) # DISKLABEL_HEADER_SIZE
       THEN DlRaise("struct.error", "", "read_disklabel_header")
            /\ UNCHANGED dlheader
       ELSE IF BadDisklabelSignature(img.dl)
       THEN DlRaise(DisklabelSignatureError, "Bad Disklabel signature",
                    "read_disklabel_header")
            /\ UNCHANGED dlheader
       ELSE /\ dlheader' = [has |-> TRUE, h |-> img.dl, size |-> DISKLABEL_SIZE_FIELD]
            /\ pc' = "dl_partitions"
            /\ UNCHANGED <<exc, stdout, dlParts, dlRes>>

DISKLABEL_PARTITION_TYPE ==
    [t \in {1, 7} |-> IF t = 1 THEN "Swap" ELSE "4.2BSD fast file system (FFS)"]

\* lba_size + self.header.size + num * 0x10
SliceOffset(num) == img.bs + dlheader.size + num * DISKLABEL_SLICE_SIZE

\* The type byte of the slice whose bytes start at offset at; bytes the image
\* does not describe are zero.
SliceTypeAt(at) ==
    LET off == at - (img.bs + DISKLABEL_HEADER_SIZE)
    IN IF off >= 0 /\ off % DISKLABEL_SLICE_SIZE = 0
          /\ (off \div DISKLABEL_SLICE_SIZE) + 1 \in 1..Len(img.dlslices)
       THEN img.dlslices[(off \div DISKLABEL_SLICE_SIZE) + 1]
       ELSE 0

\* The DisklabelPartition tuple of slot num with type byte t.
DlPart(t, num) ==
    [index |-> num, type |-> t,
     type_str |-> IF t \in DOMAIN DISKLABEL_PARTITION_TYPE
                  THEN DISKLABEL_PARTITION_TYPE[t] ELSE "Unknown"]

\* read_disklabel_partitions: one iteration of its loop (seek, read 16 bytes,
\* keep the slot if its type is not 0), or its return (self.info is set).
ReadDisklabelPartitions ==
    /\ pc = "dl_partitions"
    /\ UNCHANGED <<img, py3, fp, other, dlheader>>
    /\ UnchangedMbr /\ UnchangedGpt
    /\ LET at == SliceOffset(dlNum)
           got == ReadLen(at, DISKLABEL_SLICE_SIZE)
           t == SliceTypeAt(at)
       IN IF dlNum >= dlheader.h.slices_total
          THEN /\ dlRes' = Result("Present", dlParts, "")
               /\ pc' = "dl_pprint"
               /\ UNCHANGED <<exc, stdout, pos, dlNum, dlParts>>
          ELSE /\ pos' = at + got
               /\ IF got # DISKLABEL_SLICE_SIZE
                  THEN DlRaise("struct.error", "", "read_disklabel_partitions")
                       /\ UNCHANGED dlNum
                  ELSE /\ dlParts' = IF t # 0 THEN Append(dlParts, DlPart(t, dlNum))
                                     ELSE dlParts
                       /\ dlNum' = dlNum + 1
                       /\ UNCHANGED <<exc, stdout, pc, dlRes>>

\* d.pprint() and the closing print(): indexer[part.index] has 26 letters.
DlPprint ==
    /\ pc = "dl_pprint"
    /\ UNCHANGED <<img, py3, fp, other, pos>>
    /\ UnchangedMbr /\ UnchangedGpt /\ UnchangedDl
    /\ IF dlRes.outcome # "Present"
       THEN /\ stdout' = Append(stdout, "No Disklabel")
            /\ pc' = "done"
            /\ UNCHANGED exc
       ELSE IF \E i \in 1..Len(dlRes.partitions) :
                   dlRes.partitions[i].index >= INDEXER_LEN
       THEN /\ stdout' = Append(stdout, "Disklabel Header")
            /\ pc' = "crashed"
            /\ exc' = Exc("IndexError", "DisklabelTable.pprint")
       ELSE /\ stdout' = Append(stdout, "Disklabel Header")
            /\ pc' = "done"
            /\ UNCHANGED exc

----------------------------------------------------------------------------
(* The images get_info is run on. *)

\* The block size: what the ioctl reports, or the default when it fails.
BlockSizes == {DEFAULT_BLOCKSIZE, 4096}

\* Images that vary the GPT header, the device length and which slots are used.
GptImages ==
    UNION {
      UNION {
        {Image(len, bs, ProtectiveMbr, PlainChain,
               GptHeader(sig, rev[1], rev[2], hsize, 2, n, esize), ents, NoDl, <<>>) :
            len \in {bs + 50, 2 * bs + 130, 2 * bs + n * esize},
            ents \in [1..n -> {GptEntry(0, PlainName), GptEntry(1, PlainName)}]} :
        n \in 0..MaxGptEntries, esize \in {100, 128, 256}} :
      bs \in BlockSizes, sig \in {GPT_SIGNATURE, "EFI PARX"},
      rev \in {<<0, 0>>, <<9, 0>>, <<10, 0>>, <<0, 1>>}, hsize \in {91, 92}}

\* Images that vary the name field of the one GPT entry.
NameImages ==
    {Image(2048, 512, ProtectiveMbr, PlainChain,
           GptHeader(GPT_SIGNATURE, 0, 1, 92, 2, 1, 128), <<GptEntry(2, name)>>,
           NoDl, <<>>) :
        name \in Names}

\* Images that vary the disklabel header, the device length and the slices.
DlImages ==
    UNION {
      {Image(len, bs, NoMbr, PlainChain, NoGpt, <<>>, DlHeader(s1, s2, n), sl) :
          len \in {bs + 100, bs + 148 + 24, bs + 148 + 16 * n},
          sl \in [1..n -> {0, 7, 10}]} :
      bs \in BlockSizes, s1 \in {DISKLABEL_SIGNATURE, "WEV\\x28"},
      s2 \in {DISKLABEL_SIGNATURE, "\\0\\0\\0\\0"}, n \in 0..MaxSlices}

\* A device with one primary partition and an extended one with a two-node chain.
PlainDevice ==
    Image(FullLen, 512,
          [signature |-> MBR_SIGNATURE,
           partition |-> [i \in 1..4 |-> IF i = 1 THEN LinuxActive
                                         ELSE IF i = 2 THEN ExtendedAt2
                                         ELSE ZeroSlot]],
          PlainChain, NoGpt, <<>>, NoDl, <<>>)

\* The state of a run at the entry of get_info.
Entered ==
    /\ pc = "mbr_header"
    /\ pos = 0
    /\ exc = NoExc
    /\ stdout = <<>>
    /\ mbrheader = NoHeader
    /\ parts = <<>>
    /\ ebr = NoCall
    /\ visited = <<>>
    /\ mbrRes = Pending
    /\ gptheader = NoHeader
    /\ gptI = 0
    /\ gptParts = <<>>
    /\ gptRes = Pending
    /\ dlheader = NoHeader
    /\ dlNum = 0
    /\ dlParts = <<>>
    /\ dlRes = Pending

\* get_info(fp, name) is entered with fp just opened by __main__: the global
\* name fp is bound to the handle get_info is given, and stays so.
Init ==
    /\ \/ img \in PrimaryImages /\ py3 = TRUE
       \/ img \in ChainImages /\ py3 = TRUE
       \/ img \in GptImages /\ py3 = TRUE
       \/ img \in NameImages /\ py3 \in BOOLEAN
       \/ img \in DlImages /\ py3 = TRUE
    /\ fp = "own"
    /\ other = Other(PlainDevice, 0)
    /\ Entered

Next ==
    \/ ReadMbrHeader
    \/ ReadMbrPartitions
    \/ ReadEbrPartition
    \/ MbrPprint
    \/ ReadGptHeader
    \/ ReadGptPartitions
    \/ GptPprint
    \/ ReadDisklabelHeader
    \/ ReadDisklabelPartitions
    \/ DlPprint

Spec == Init /\ [][Next]_vars

----------------------------------------------------------------------------
(* A host that decodes two devices in interleaved passes, each pass with the *)
(* handle of its own device.  The run of get_info above is one pass; of the  *)
(* other pass the model keeps what touches the module and its own handle.    *)

\* The EBR sectors of the devices of the host.
HostNodes ==
    {Node(Logical, ZeroSlot, MBR_SIGNATURE),
     Node(Logical, Slot(0, 5, 1, 2), MBR_SIGNATURE),
     Node(Logical, ZeroSlot, <<0, 0>>)}

\* The devices this pass decodes: chains behind an extended partition at LBA 2,
\* one device with a GPT and one with a disklabel.
HostImages ==
    {Image(FullLen, 512, PlainDevice.mbr, ch, NoGpt, <<>>, NoDl, <<>>) :
        ch \in [EbrLbas -> HostNodes]}
    \cup {Image(2048, 512, ProtectiveMbr, PlainChain,
                GptHeader(GPT_SIGNATURE, 0, 1, 92, 2, 1, 128),
                <<GptEntry(2, PlainName)>>, NoDl, <<>>),
          Image(512 + 148 + 16, 512, NoMbr, PlainChain, NoGpt, <<>>,
                DlHeader(DISKLABEL_SIGNATURE, DISKLABEL_SIGNATURE, 1), <<7>>)}

\* The devices the other pass decodes.
OtherDevices ==
    {PlainDevice,
     Image(FullLen, 512, NoMbr, PlainChain, NoGpt, <<>>, NoDl, <<>>)}

\* The other pass opens its device: fp = open(...) binds the module's global.
OtherOpen ==
    /\ fp # "other"
    /\ fp' = "other"
    /\ UNCHANGED <<img, other, py3, pc, pos, exc, stdout>>
    /\ UnchangedMbr /\ UnchangedGpt /\ UnchangedDl

\* The other pass reads a sector of its device as MBR or EBR: an absolute
\* seek on its handle, then a read of 512 bytes.
OtherRead ==
    /\ fp = "other"
    /\ \E l \in 0..MaxLBA :
          other' = Other(other.dev,
                         l * MBR_LBA_SIZE
                         + ReadLenOf(other.dev, l * MBR_LBA_SIZE, MBR_SIZE))
    /\ UNCHANGED <<img, fp, py3, pc, pos, exc, stdout>>
    /\ UnchangedMbr /\ UnchangedGpt /\ UnchangedDl

\* get_info is entered with the handle of its device; the global name fp is
\* bound to that handle (a host that opens as __main__ does) or not bound (a
\* host that imports the module).
InitHost ==
    /\ img \in HostImages
    /\ py3 = TRUE
    /\ fp \in {"own", "unbound"}
    /\ other \in {Other(d, 0) : d \in OtherDevices}
    /\ Entered

NextHost ==
    \/ Next
    \/ OtherOpen
    \/ OtherRead

SpecHost == InitHost /\ [][NextHost]_vars

----------------------------------------------------------------------------
(* The claims. *)

Range(q) == {q[i] : i \in 1..Len(q)}

\* The MBR decode has ended with a result, and the list it holds.
MbrPresent == mbrRes.outcome = "Present"

\* What slots 1..4 of the header must decode to: the non-empty ones, in slot
\* order, as <<index, type, active>>.
ExpectedPrimaries ==
    LET all == [i \in 1..4 |->
                  <<i, img.mbr.partition[i].type,
                    img.mbr.partition[i].status >= 128>>]
    IN SelectSeq(all, LAMBDA t : t[2] # 0)

\* The primary entries of a list of MBR entries, as <<index, type, active>>.
PrimariesOf(ps) ==
    LET prim == SelectSeq(ps, LAMBDA p : ~p.none /\ p.index <= 4)
    IN [k \in 1..Len(prim) |-> <<prim[k].index, prim[k].type, prim[k].active>>]

\* C1: once the MBR header is accepted, the decoded primary entries are exactly
\* the slots among 1, 2, 3, 4 with a non-zero type, in slot order, each with
\* its slot index and active = (status >= 0x80).
C1_PrimarySlotsDecoded ==
    /\ pc = "ebr" => PrimariesOf(parts) = ExpectedPrimaries
    /\ MbrPresent => PrimariesOf(mbrRes.partitions) = ExpectedPrimaries

\* Every visited EBR sector was read whole and carries the boot signature.
WalkSound ==
    \A k \in 1..Len(visited) :
        /\ (visited[k] + 1) * MBR_LBA_SIZE <= img.len
        /\ EbrAt(visited[k]).signature = MBR_SIGNATURE

\* The walk went along a chain that ends with an all-zero next descriptor: every
\* node but the last links on (type not 0) and no LBA repeats.
ChainTerminated ==
    /\ visited # <<>>
    /\ pc # "ebr"
    /\ WalkSound
    /\ IsZeroSlot(EbrAt(visited[Len(visited)]).next_ebr)
    /\ \A k \in 1..(Len(visited) - 1) : EbrAt(visited[k]).next_ebr.type # 0
    /\ \A j, k \in 1..Len(visited) : j # k => visited[j] # visited[k]

\* The logical entries the chain must give, as <<index, type, lba>>: one per
\* node, numbered from 5; none for a lone node with an empty descriptor.
ExpectedLogical ==
    IF Len(visited) = 1 /\ IsZeroSlot(EbrAt(visited[1]).partition)
    THEN <<>>
    ELSE [k \in 1..Len(visited) |->
            <<4 + k, EbrAt(visited[k]).partition.type,
              EbrAt(visited[k]).partition.lba>>]

\* The elements of a list of MBR entries that follow the primary entries.
LogicalOf(ps) ==
    LET n == Len(SelectSeq(ps, LAMBDA p : ~p.none /\ p.index <= 4))
    IN [k \in 1..(Len(ps) - n) |->
            <<ps[n + k].index, ps[n + k].type, ps[n + k].lba>>]

\* C2: for a chain of N nodes with non-empty partition descriptors ended by an
\* all-zero next descriptor, the decode ends Present with exactly N logical
\* entries after the primary ones, indexed 5..4+N in chain order; for a first
\* EBR with an empty descriptor and an all-zero next descriptor it ends Present
\* with no logical entry.
C2_LogicalEntries ==
    (/\ ChainTerminated
     /\ \/ \A k \in 1..Len(visited) : EbrAt(visited[k]).partition.type # 0
        \/ Len(visited) = 1 /\ IsZeroSlot(EbrAt(visited[1]).partition))
    => /\ MbrPresent
       /\ LogicalOf(mbrRes.partitions) = ExpectedLogical

\* C3: the walk never reads an EBR LBA twice: a next descriptor that leads to a
\* visited LBA ends the decode as Corrupt, "EBR cycle detected", and the walk
\* never runs into the recursion limit.
C3_CycleDetected ==
    /\ \A j, k \in 1..Len(visited) : j # k => visited[j] # visited[k]
    /\ ~(pc = "ebr" /\ ebr.extended_lba + ebr.lba \in Range(visited))
    /\ exc.type # "RecursionError"
    /\ (\E k \in 1..Len(visited) :
            /\ WalkSound
            /\ EbrAt(visited[k]).next_ebr.type # 0
            /\ ebr.extended_lba + EbrAt(visited[k]).next_ebr.lba \in Range(visited))
       => mbrRes.outcome = "Corrupt" /\ mbrRes.reason = "EBR cycle detected"

Outcomes == {"Present", "Absent", "Corrupt"}

\* C4: no failure of one parser ends the run: get_info never stops on an
\* exception, and when it returns each of the three parsers has its outcome.
C4_AllParsersRun ==
    /\ pc # "crashed"
    /\ exc = NoExc
    /\ pc = "done" => /\ mbrRes.outcome \in Outcomes
                      /\ gptRes.outcome \in Outcomes
                      /\ dlRes.outcome \in Outcomes

\* read_gpt_header has decoded a whole 92-byte header and acted on it.
GptHeaderRead ==
    \/ pc \in {"gpt_partitions", "gpt_pprint", "dl_header", "dl_partitions",
               "dl_pprint", "done"}
    \/ pc = "crashed" /\ exc.at \in {"read_gpt_partitions", "read_disklabel_header",
                                     "read_disklabel_partitions",
                                     "DisklabelTable.pprint"}

\* The header's revision, major + minor/10, is below 1.0.
RevisionBelowOne(h) == h.revision_major = 0 /\ h.revision_minor <= 9

\* C5: a 92-byte GPT header with another signature than "EFI PART" gives Absent
\* whatever its other fields; with the signature, a revision below 1.0 gives
\* Corrupt and a header_size below 92 gives Corrupt; every other header,
\* revision exactly 1.0 included, is accepted.
C5_GptHeaderClassified ==
    GptHeaderRead =>
        IF img.gpt.signature # "EFI PART"
        THEN gptRes.outcome = "Absent" /\ ~gptheader.has
        ELSE IF RevisionBelowOne(img.gpt) \/ img.gpt.header_size <= 91
        THEN gptRes.outcome = "Corrupt" /\ ~gptheader.has
        ELSE gptheader.has /\ gptheader.h = img.gpt

\* A header of revision exactly 1.0 was accepted.
C5_Witness ==
    /\ gptheader.has
    /\ gptheader.h.revision_major = 1 /\ gptheader.h.revision_minor = 0
    /\ gptheader.h.header_size = 92

\* The entries the first k array slots must give, as <<index, GUID>>: the slots
\* with a type GUID that is not all-zero, in disk order.
ExpectedGptUpTo(k) ==
    LET all == [i \in 1..k |-> <<i, img.gptents[i].guid>>]
        used == SelectSeq(all, LAMBDA t : t[2] # 0)
    IN [j \in 1..Len(used) |-> <<used[j][1], GuidText(used[j][2])>>]

GptEntriesOf(ps) == [j \in 1..Len(ps) |-> <<ps[j].index, ps[j].guid>>]

\* C6: the scan goes through all num_part_entries slots in disk order: after i
\* slots the list holds exactly the slots among the first i whose type GUID is
\* not all-zero, each once with its 1-based position as index, and the Present
\* result holds those of all the slots.
C6_GptSlotsScanned ==
    /\ pc = "gpt_partitions" => GptEntriesOf(gptParts) = ExpectedGptUpTo(gptI)
    /\ gptRes.outcome = "Present" =>
           GptEntriesOf(gptRes.partitions)
               = ExpectedGptUpTo(img.gpt.num_part_entries)

\* An unused slot 1 was passed over and slot 2 is in the result with index 2.
C6_Witness ==
    /\ gptRes.outcome = "Present"
    /\ img.gpt.num_part_entries >= 2
    /\ img.gptents[1].guid = 0
    /\ img.gptents[2].guid # 0
    /\ Len(gptRes.partitions) >= 1
    /\ gptRes.partitions[1].index = 2

\* C7: with part_entry_size above 128 and all declared entry bytes on the
\* device, the decode of an accepted header ends Present with every used slot
\* decoded, slot i read at part_entry_start_lba * block_size + i * part_entry_size.
C7_LargeEntrySize ==
    (/\ gptheader.has
     /\ img.gpt.part_entry_size > 128
     /\ img.len >= img.gpt.part_entry_start_lba * img.bs
                   + img.gpt.num_part_entries * img.gpt.part_entry_size)
    => /\ exc.type # "struct.error"
       /\ pc = "gpt_partitions" /\ gptI > 0 =>
              pos = img.gpt.part_entry_start_lba * img.bs
                    + gptI * img.gpt.part_entry_size
       /\ pc # "gpt_partitions" =>
              /\ gptRes.outcome = "Present"
              /\ GptEntriesOf(gptRes.partitions)
                     = ExpectedGptUpTo(img.gpt.num_part_entries)

\* The code units of a name field before its first null unit.
BeforeNull(us) ==
    IF \E i \in 1..Len(us) : us[i] = 0
    THEN SubSeq(us, 1, (CHOOSE i \in 1..Len(us) :
                            us[i] = 0 /\ \A j \in 1..(i - 1) : us[j] # 0) - 1)
    ELSE us

\* C8: the name of every decoded GPT entry is the text of its name field up to
\* the first null code unit: no null and nothing after it, and every character
\* before it ('0' included) kept.
C8_NameCutAtNull ==
    \A k \in 1..Len(gptParts) :
        gptParts[k].name = BeforeNull(img.gptents[gptParts[k].index].name)

\* Some visited EBR sector was read whole and has another boot signature.
BadEbrVisited ==
    \E k \in 1..Len(visited) :
        /\ (visited[k] + 1) * MBR_LBA_SIZE <= img.len
        /\ EbrAt(visited[k]).signature # <<85, 170>>

\* C9: once the walk has read an EBR sector with a bad boot signature, the MBR
\* decode has ended Corrupt (not Absent), with no result: neither the primary
\* entries nor the logical entries decoded before.
C9_BadEbrSignatureCorrupt ==
    BadEbrVisited =>
        /\ mbrRes.outcome = "Corrupt"
        /\ mbrRes.reason = "Bad EBR signature"
        /\ mbrRes.partitions = <<>>
        /\ parts = <<>>
        /\ pc # "ebr"
        /\ exc = NoExc \/ exc.at \notin {"read_mbr_header", "read_ebr_partition",
                                         "MBRTable.pprint"}

\* A primary and a logical entry were decoded before the bad node was read.
C9_Witness ==
    /\ BadEbrVisited
    /\ Len(visited) >= 2
    /\ EbrAt(visited[1]).partition.type # 0
    /\ img.mbr.partition[1].type # 0
    /\ mbrRes.outcome = "Corrupt"
    /\ pc = "done"

\* read_disklabel_header has decoded a whole 148-byte header and acted on it.
DlHeaderRead ==
    \/ pc \in {"dl_partitions", "dl_pprint", "done"}
    \/ pc = "crashed" /\ exc.at \in {"read_disklabel_partitions",
                                     "DisklabelTable.pprint"}

\* C10: a disklabel header with either magic field different from the magic
\* gives Absent (neither Corrupt nor Present), and the slice array is read only
\* when both fields equal the magic.
C10_DisklabelMagic ==
    LET ok1 == img.dl.signature1 = "WEV\\x82"
        ok2 == img.dl.signature2 = "WEV\\x82"
    IN /\ DlHeaderRead /\ ~(ok1 /\ ok2) =>
              dlRes.outcome = "Absent" /\ ~dlheader.has /\ dlNum = 0
       /\ DlHeaderRead /\ ok1 /\ ok2 => dlheader.has /\ dlRes.outcome # "Absent"
       /\ pc = "dl_partitions" => ok1 /\ ok2

\* Only signature2 differs from the magic and the decode ended Absent.
C10_Witness ==
    /\ pc = "done"
    /\ img.dl.signature1 = "WEV\\x82"
    /\ img.dl.signature2 # "WEV\\x82"
    /\ dlRes.outcome = "Absent"

\* C11: a pass reads and seeks only the handle it was given: no step of
\* get_info on one device moves the cursor of, or consumes bytes from, the
\* handle of the other device the host decodes in an interleaved pass.
C11_OwnSourceOnly == [][Next => other' = other]_vars

\* The slots of the header that hold an extended type code.
ExtendedSlots == {i \in 1..4 : img.mbr.partition[i].type \in MBR_EXTENDED_TYPE}

\* The LBA of the first primary entry with an extended type code.
ExpectedBase ==
    img.mbr.partition[CHOOSE i \in ExtendedSlots :
                          \A j \in ExtendedSlots : i <= j].lba

\* The k-th visited EBR sector was read whole and carries the boot signature.
NodeSound(k) ==
    /\ (visited[k] + 1) * MBR_LBA_SIZE <= img.len
    /\ EbrAt(visited[k]).signature = MBR_SIGNATURE

\* The next-EBR descriptor of the k-th visited sector.
NextOf(k) == EbrAt(visited[k]).next_ebr

\* C12: the walk starts at the LBA of the first extended primary entry and
\* keeps that base; every node read after another is at base + the LBA field
\* of that node's next descriptor, which is not all-zero; and a decoded node is
\* the last one only if its next descriptor is all-zero, whatever its type
\* byte: otherwise the walk goes on to base + its LBA field.
C12_EbrWalk ==
    /\ pc = "ebr" => ebr.extended_lba = ExpectedBase
    /\ visited # <<>> => visited[1] = ExpectedBase
    /\ \A k \in 1..(Len(visited) - 1) :
          /\ ~IsZeroSlot(NextOf(k))
          /\ visited[k + 1] = ExpectedBase + NextOf(k).lba
    /\ (visited # <<>> /\ NodeSound(Len(visited)))
       => IF IsZeroSlot(NextOf(Len(visited)))
          THEN pc # "ebr"
          ELSE /\ pc = "ebr"
               /\ ebr.extended_lba + ebr.lba
                  = ExpectedBase + NextOf(Len(visited)).lba

\* C13: no Present result holds an empty or null element: every MBR entry,
\* primary or logical, is an entry with a type code other than 0, every GPT
\* entry has a type GUID that is not all-zero, and every disklabel entry has a
\* type code other than 0.
C13_NoEmptyEntries ==
    /\ MbrPresent =>
          \A k \in 1..Len(mbrRes.partitions) :
              ~mbrRes.partitions[k].none /\ mbrRes.partitions[k].type # 0
    /\ gptRes.outcome = "Present" =>
          \A k \in 1..Len(gptRes.partitions) :
              gptRes.partitions[k].guid # "00000000-0000-0000-0000-000000000000"
    /\ dlRes.outcome = "Present" =>
          \A k \in 1..Len(dlRes.partitions) : dlRes.partitions[k].type # 0

====
